---- MODULE Spec2Model ----
(***************************************************************************)
(* Model of the IPDK docker network plugin (src/plugin.go): the three      *)
(* mutex-guarded in-memory tables nwMap / epMap / brMap, the bolt ledger   *)
(* db, the out-of-process provisioning commands, and the request handlers  *)
(* CreateNetwork, DeleteNetwork, CreateEndpoint, DeleteEndpoint and Join   *)
(* running concurrently on worker goroutines.                              *)
(***************************************************************************)
EXTENDS Integers, Sequences, FiniteSets, TLC

\* Worker goroutines serving requests concurrently, and the request inputs.
Procs == {"w1", "w2"}
NetworkIDs == {"net1", "net2"}
EndpointIDs == {"ep1", "ep2"}
Addresses == {"", "10.0.0.5", "10.0.0.5/24", "10.0.0.6/24"}
NoGateway == [IP |-> "", Mask |-> 0]
Gateways == {[IP |-> "10.0.0.1", Mask |-> 24], [IP |-> "10.1.0.1", Mask |-> 16]}

\* Bounds of the exploration: requests served in total and process restarts
\* when host commands and ledger operations may fail; requests served when
\* they always succeed and the process keeps running.
MaxReqs == 3
MaxRestarts == 1
MaxReqsReliable == 4

\* intfCounter's default in initDb.
DefaultIntfCounter == 100

Free == "free"
Leaked == "leaked"

VARIABLES
    nwMap,        \* nwMap.m : NetworkID -> nwVal
    epMap,        \* epMap.m : EndpointID -> epVal
    brMap,        \* [brCount, intfCount, m : NetworkID -> int]
    intfCounter,  \* package variable intfCounter
    mu,           \* the three embedded sync.Mutex: holder, Free or Leaked
    db,           \* bolt buckets global / nwMap / epMap / brMap (encoded values)
    dirs,         \* socket directories /tmp/vhostuser_<ip>
    vifs,         \* dataplane virtual devices created through gnmi-cli
    rules,        \* ingress.ipv4_host entries added through ovs-p4ctl
    links,        \* dummy interfaces (ip link add <ip> type dummy)
    pc,           \* position of each worker in its handler
    req,          \* decoded request of each worker
    loc,          \* handler locals of each worker
    resp,         \* response sent by each worker
    hist,         \* values handed out by the counters in this process run,
                  \* and the interface indexes handed out in earlier runs
    durable,      \* records as they were when their ledger write succeeded
    seen,         \* the network and endpoint IDs requests have named so far
    budget,       \* requests still to be accepted
    restarts,     \* process restarts so far
    faults        \* whether host commands and ledger operations may fail

mem == <<nwMap, epMap, brMap, intfCounter>>
ext == <<dirs, vifs, rules, links>>
ghost == <<hist, durable>>
ctl == <<seen, budget, restarts, faults>>
vars == <<nwMap, epMap, brMap, intfCounter, mu, db, dirs, vifs, rules, links,
          pc, req, loc, resp, hist, durable, seen, budget, restarts, faults>>

----------------------------------------------------------------------------
\* Go maps.
EmptyMap == [k \in {} |-> 0]
PutOnly(m, k, v) == [x \in {k} |-> v]
Put(m, k, v) == [x \in (DOMAIN m) \cup {k} |-> IF x = k THEN v ELSE m[x]]
DelNothing(m, k) == m
Del(m, k) == [x \in (DOMAIN m) \ {k} |-> m[x]]

\* net.ParseCIDR on the addresses of the model: an address without a prefix
\* length (or the empty string) is an error, otherwise the IP part is returned.
ParseCIDRLenient(s) ==
    CASE s = "10.0.0.5/24" -> [err |-> FALSE, ip |-> "10.0.0.5"]
      [] s = "10.0.0.6/24" -> [err |-> FALSE, ip |-> "10.0.0.6"]
      [] s = "10.0.0.5" -> [err |-> FALSE, ip |-> "10.0.0.5"]
      [] OTHER -> [err |-> TRUE, ip |-> ""]
ParseCIDR(s) ==
    CASE s = "10.0.0.5/24" -> [err |-> FALSE, ip |-> "10.0.0.5"]
      [] s = "10.0.0.6/24" -> [err |-> FALSE, ip |-> "10.0.0.6"]
      [] OTHER -> [err |-> TRUE, ip |-> ""]

\* fmt.Sprintf("%d", n) for n >= 0: the decimal digits of n.
Digit(d) == CASE d = 0 -> "0" [] d = 1 -> "1" [] d = 2 -> "2" [] d = 3 -> "3"
              [] d = 4 -> "4" [] d = 5 -> "5" [] d = 6 -> "6" [] d = 7 -> "7"
              [] d = 8 -> "8" [] d = 9 -> "9"
RECURSIVE Itoa(_)
Itoa(n) == IF n < 10 THEN <<Digit(n)>> ELSE Append(Itoa(n \div 10), Digit(n % 10))

\* encoding/gob on the struct types nwVal and epVal: only exported fields
\* (upper-case initial) are transmitted, zero-valued fields are omitted, and
\* the decoder leaves fields it did not receive at their zero value.
nwValFields == {"Bridge", "Gateway"}
epValFields == {"IP", "vhostuserPort", "ipdkInterface"}
IsExportedBridgeOnly(f) == f \in {"Bridge", "IP"}
IsExported(f) == f \in {"Bridge", "Gateway", "IP"}
ZeroValue(f) == CASE f = "Gateway" -> NoGateway
                  [] f = "ipdkInterface" -> <<>>
                  [] OTHER -> ""
GobEncode(v) == [f \in {g \in DOMAIN v : IsExported(g) /\ v[g] # ZeroValue(g)} |-> v[f]]
GobDecode(e, fields) == [f \in fields |-> IF f \in DOMAIN e THEN e[f] ELSE ZeroValue(f)]
\* gob on a top-level int (the brMap values).
GobEncodeInt(n) == [int |-> n]
GobDecodeInt(e) == e.int

\* dbAdd / dbDelete / dbGet on the buckets; ok = FALSE is a failed db.Update,
\* which leaves the bucket as it was.
dbAdd(d, table, key, enc, ok) == IF ok THEN [d EXCEPT ![table] = Put(@, key, enc)] ELSE d
dbDeleteKeep(d, table, key, ok) == d
dbDelete(d, table, key, ok) == IF ok THEN [d EXCEPT ![table] = Del(@, key)] ELSE d
\* dbGet never assigns its result value: it returns nil, with an error when a
\* stored value is found (decoding into a nil interface fails).
Nil == "nil"
dbGet(d, table, key) == [value |-> Nil, err |-> key \in DOMAIN d[table]]

\* The ghost copy of what the ledger durably holds, in unencoded form.
durAdd(d, table, key, v, ok) == IF ok THEN [d EXCEPT ![table] = Put(@, key, v)] ELSE d
durDelete(d, table, key, ok) == IF ok THEN [d EXCEPT ![table] = Del(@, key)] ELSE d

----------------------------------------------------------------------------
NoReq == [op |-> "none", NetworkID |-> "", EndpointID |-> "", Address |-> "", Gateway |-> NoGateway]
NoLoc == [ip |-> "", bridge |-> "", ipdk_intf |-> 0, vhostPort |-> "", dbErr |-> {},
          cmds |-> <<>>]

Init ==
    /\ nwMap = EmptyMap
    /\ epMap = EmptyMap
    /\ brMap = [brCount |-> 1, intfCount |-> 1, m |-> EmptyMap]
    /\ intfCounter = DefaultIntfCounter
    /\ mu = [nwMap |-> Free, epMap |-> Free, brMap |-> Free]
    /\ db = [global |-> EmptyMap, nwMap |-> EmptyMap, epMap |-> EmptyMap, brMap |-> EmptyMap]
    /\ dirs = {} /\ vifs = {} /\ rules = {} /\ links = {}
    /\ pc = [p \in Procs |-> "idle"]
    /\ req = [p \in Procs |-> NoReq]
    /\ loc = [p \in Procs |-> NoLoc]
    /\ resp = [p \in Procs |-> "none"]
    /\ hist = [br |-> <<>>, intf |-> <<>>, past |-> {}]
    /\ durable = [nwMap |-> EmptyMap, epMap |-> EmptyMap, brMap |-> EmptyMap]
    /\ seen = {}
    /\ budget = MaxReqs
    /\ restarts = 0
    /\ faults = TRUE

\* The outcomes a host command or a ledger operation can have.
Outcomes == IF faults THEN BOOLEAN ELSE {TRUE}

\* sync.Mutex Lock / Unlock.
Lock(p, l, next) ==
    /\ mu[l] = Free
    /\ mu' = [mu EXCEPT ![l] = p]
    /\ pc' = [pc EXCEPT ![p] = next]
    /\ UNCHANGED <<mem, db, ext, req, loc, resp, ghost, ctl>>

\* The deferred Unlock calls of a returning (or panicking) handler.
Deferred(p) == [l \in DOMAIN mu |-> IF mu[l] = p THEN Free ELSE mu[l]]
\* A handler that panics with locks it did not defer: they stay locked.
Abandon(p) == [l \in DOMAIN mu |-> IF mu[l] = p THEN Leaked ELSE mu[l]]

\* if err := dbAdd(...); err != nil { glog.Errorf(...) }: the error of a ledger
\* operation on a table is logged, and the handler goes on.
Logged(l, table, ok) == IF ok THEN l ELSE [l EXCEPT !.dbErr = @ \cup {table}]
\* The response of a handler whose last ledger operation returned ok.
respAfterDbStrict(ok) == IF ok THEN "ok" ELSE "Error: unable to update db"
respAfterDb(ok) == "ok"

\* err of a host command the handler ran (os.Mkdir, exec.Command(...)): the
\* handler's commands so far, each with whether its err was nil.
Ran(l, cmd, ok) == [l EXCEPT !.cmds = Append(@, [cmd |-> cmd, ok |-> ok])]

\* sendResponse and the end of the handler.
Finish(p, r) ==
    /\ pc' = [pc EXCEPT ![p] = "done"]
    /\ resp' = [resp EXCEPT ![p] = r]

\* A decoded request enters its handler. Goroutines have no identity: the
\* request goes to the first worker that is free.
Before(q, p) == q = "w1" /\ p = "w2"
\* Network and endpoint IDs are opaque strings minted by the docker daemon: a
\* request names an ID named before or the next one not yet named.
Nameable(id) ==
    /\ id = "net2" => "net1" \in seen
    /\ id = "ep2" => "ep1" \in seen

Accept(p, r, next) ==
    /\ pc[p] = "idle"
    /\ \A q \in Procs : Before(q, p) => pc[q] # "idle"
    /\ budget > 0
    /\ budget' = budget - 1
    /\ Nameable(r.NetworkID) /\ Nameable(r.EndpointID)
    /\ seen' = seen \cup ({r.NetworkID, r.EndpointID} \ {""})
    /\ req' = [req EXCEPT ![p] = r]
    /\ pc' = [pc EXCEPT ![p] = next]
    /\ UNCHANGED <<mem, mu, db, ext, loc, resp, ghost, restarts, faults>>

----------------------------------------------------------------------------
\* handlerCreateNetwork

ReqCreateNetwork(p) ==
    \E n \in NetworkIDs, g \in Gateways :
        Accept(p, [NoReq EXCEPT !.op = "CreateNetwork", !.NetworkID = n, !.Gateway = g],
               "cn_lock_nw")

CN_LockNw(p) == pc[p] = "cn_lock_nw" /\ Lock(p, "nwMap", "cn_put_nw")

CN_PutNw(p) ==
    /\ pc[p] = "cn_put_nw"
    /\ LET id == req[p].NetworkID
           v == [Bridge |-> "br", Gateway |-> req[p].Gateway]
       IN /\ nwMap' = Put(nwMap, id, v)
          /\ \E ok \in Outcomes :
                /\ db' = dbAdd(db, "nwMap", id, GobEncode(v), ok)
                /\ durable' = durAdd(durable, "nwMap", id, v, ok)
                /\ loc' = [loc EXCEPT ![p] = Logged(@, "nwMap", ok)]
    /\ pc' = [pc EXCEPT ![p] = "cn_lock_br"]
    /\ UNCHANGED <<epMap, brMap, intfCounter, mu, ext, req, resp, hist, ctl>>

CN_LockBr(p) == pc[p] = "cn_lock_br" /\ Lock(p, "brMap", "cn_put_br")

brMapAssignKeep(b, id) ==
    IF id \in DOMAIN b.m THEN [b EXCEPT !.brCount = @ + 1]
    ELSE [b EXCEPT !.m = Put(@, id, b.brCount), !.brCount = @ + 1]
brMapAssign(b, id) == [b EXCEPT !.m = Put(@, id, b.brCount), !.brCount = @ + 1]

CN_PutBr(p) ==
    /\ pc[p] = "cn_put_br"
    /\ LET id == req[p].NetworkID
       IN /\ brMap' = brMapAssign(brMap, id)
          /\ hist' = [hist EXCEPT !.br = Append(@, brMap'.m[id])]
          /\ \E ok \in Outcomes :
                /\ db' = dbAdd(db, "brMap", id, GobEncodeInt(brMap'.m[id]), ok)
                /\ durable' = durAdd(durable, "brMap", id, brMap'.m[id], ok)
                /\ loc' = [loc EXCEPT ![p] = Logged(@, "brMap", ok)]
                /\ Finish(p, respAfterDb(ok))
    /\ mu' = Deferred(p)
    /\ UNCHANGED <<nwMap, epMap, intfCounter, ext, req, ctl>>

----------------------------------------------------------------------------
\* handlerDeleteNetwork

ReqDeleteNetwork(p) ==
    \E n \in NetworkIDs :
        Accept(p, [NoReq EXCEPT !.op = "DeleteNetwork", !.NetworkID = n], "dn_lock_nw")

DN_LockNw(p) == pc[p] = "dn_lock_nw" /\ Lock(p, "nwMap", "dn_del_nw")

DN_DelNw(p) ==
    /\ pc[p] = "dn_del_nw"
    /\ LET id == req[p].NetworkID
       IN IF id \notin DOMAIN nwMap
          THEN \* nil pointer dereference at nwMap.m[id].Bridge; the deferred
               \* Unlock runs while the panic unwinds.
               /\ mu' = Deferred(p)
               /\ Finish(p, "panic")
               /\ UNCHANGED <<mem, db, ext, req, loc, ghost, ctl>>
          ELSE /\ nwMap' = Del(nwMap, id)
               /\ \E ok \in Outcomes :
                     /\ db' = dbDelete(db, "nwMap", id, ok)
                     /\ durable' = durDelete(durable, "nwMap", id, ok)
                     /\ loc' = [loc EXCEPT ![p] =
                                  Logged([@ EXCEPT !.bridge = nwMap[id].Bridge], "nwMap", ok)]
               /\ pc' = [pc EXCEPT ![p] = "dn_lock_br"]
               /\ UNCHANGED <<epMap, brMap, intfCounter, mu, ext, req, resp, hist, ctl>>

DN_LockBr(p) == pc[p] = "dn_lock_br" /\ Lock(p, "brMap", "dn_del_br")

brMapDeleteReuse(b, id) == [b EXCEPT !.m = Del(@, id), !.brCount = @ - 1]
brMapDelete(b, id) == [b EXCEPT !.m = Del(@, id)]

DN_DelBr(p) ==
    /\ pc[p] = "dn_del_br"
    /\ LET id == req[p].NetworkID
       IN /\ brMap' = brMapDelete(brMap, id)
          /\ \E ok \in Outcomes :
                /\ db' = dbDelete(db, "brMap", id, ok)
                /\ durable' = durDelete(durable, "brMap", id, ok)
                /\ loc' = [loc EXCEPT ![p] = Logged(@, "brMap", ok)]
                /\ Finish(p, respAfterDb(ok))
    /\ mu' = Deferred(p)
    /\ UNCHANGED <<nwMap, epMap, intfCounter, ext, req, hist, ctl>>

----------------------------------------------------------------------------
\* handlerCreateEndpoint

ReqCreateEndpoint(p) ==
    \E n \in NetworkIDs, e \in EndpointIDs, a \in Addresses :
        Accept(p, [NoReq EXCEPT !.op = "CreateEndpoint", !.NetworkID = n,
                                !.EndpointID = e, !.Address = a], "ce_check")

\* The address checks before any lock is taken.
CE_Check(p) ==
    /\ pc[p] = "ce_check"
    /\ LET a == req[p].Address
           r == ParseCIDR(a)
       IN IF a = ""
          THEN Finish(p, "Error: IP Address parameter not provided in docker run")
               /\ UNCHANGED loc
          ELSE IF r.err
          THEN Finish(p, "Error: Invalid IP Address") /\ UNCHANGED loc
          ELSE /\ loc' = [loc EXCEPT ![p].ip = r.ip]
               /\ pc' = [pc EXCEPT ![p] = "ce_lock1"]
               /\ UNCHANGED resp
    /\ UNCHANGED <<mem, mu, db, ext, req, ghost, ctl>>

CE_Lock1(p) == pc[p] = "ce_lock1" /\ Lock(p, "nwMap", "ce_lookup")

\* bridge := nwMap.m[req.NetworkID].Bridge between Lock and Unlock (no defer),
\* then the bridge == "" test.
CE_Lookup(p) ==
    /\ pc[p] = "ce_lookup"
    /\ LET id == req[p].NetworkID
       IN IF id \notin DOMAIN nwMap
          THEN \* nil pointer dereference: the handler panics holding nwMap
               /\ mu' = Abandon(p)
               /\ Finish(p, "panic")
               /\ UNCHANGED loc
          ELSE /\ mu' = [mu EXCEPT !.nwMap = Free]
               /\ loc' = [loc EXCEPT ![p].bridge = nwMap[id].Bridge]
               /\ IF nwMap[id].Bridge = ""
                  THEN Finish(p, "Error: incompatible network")
                  ELSE pc' = [pc EXCEPT ![p] = "ce_lock_nw"] /\ UNCHANGED resp
    /\ UNCHANGED <<mem, db, ext, req, ghost, ctl>>

CE_LockNw(p) == pc[p] = "ce_lock_nw" /\ Lock(p, "nwMap", "ce_lock_ep")
CE_LockEp(p) == pc[p] = "ce_lock_ep" /\ Lock(p, "epMap", "ce_lock_br")
CE_LockBr(p) == pc[p] = "ce_lock_br" /\ Lock(p, "brMap", "ce_mkdir")

\* An error return of handlerCreateEndpoint once the three Unlocks are deferred.
CE_Fail(p, r) ==
    /\ mu' = Deferred(p)
    /\ Finish(p, r)

\* vhostPort := ip; os.Mkdir("/tmp/vhostuser_<ip>"): fails when the directory
\* exists, or for a reason of the host (envOk = FALSE).
CE_Mkdir(p) ==
    /\ pc[p] = "ce_mkdir"
    /\ \E envOk \in Outcomes :
          IF envOk /\ loc[p].ip \notin dirs
          THEN /\ dirs' = dirs \cup {loc[p].ip}
               /\ loc' = [loc EXCEPT ![p] = Ran([@ EXCEPT !.vhostPort = loc[p].ip],
                                                "mkdir", TRUE)]
               /\ pc' = [pc EXCEPT ![p] = "ce_alloc"]
               /\ UNCHANGED <<mu, resp>>
          ELSE /\ CE_Fail(p, "Error making socket path")
               /\ loc' = [loc EXCEPT ![p] = Ran([@ EXCEPT !.vhostPort = loc[p].ip],
                                                "mkdir", FALSE)]
               /\ UNCHANGED dirs
    /\ UNCHANGED <<mem, db, vifs, rules, links, req, ghost, ctl>>

\* ipdk_intf := brMap.intfCount; brMap.intfCount = brMap.intfCount + 1
intfCountStuck(b) == b
intfCountNext(b) == [b EXCEPT !.intfCount = @ + 1]

CE_Alloc(p) ==
    /\ pc[p] = "ce_alloc"
    /\ loc' = [loc EXCEPT ![p].ipdk_intf = brMap.intfCount]
    /\ brMap' = intfCountNext(brMap)
    /\ hist' = [hist EXCEPT !.intf = Append(@, brMap.intfCount)]
    /\ pc' = [pc EXCEPT ![p] = "ce_gnmi"]
    /\ UNCHANGED <<nwMap, epMap, intfCounter, mu, db, ext, req, resp, durable, ctl>>

\* docker exec ipdk gnmi-cli set device:virtual-device,name:net_vhost<n>,...
CE_Gnmi(p) ==
    /\ pc[p] = "ce_gnmi"
    /\ \E envOk \in Outcomes :
          IF envOk
          THEN /\ vifs' = vifs \cup {[name |-> loc[p].ipdk_intf, socket |-> loc[p].ip]}
               /\ loc' = [loc EXCEPT ![p] = Ran(@, "gnmi-cli", TRUE)]
               /\ pc' = [pc EXCEPT ![p] = "ce_p4ctl"]
               /\ UNCHANGED <<mu, resp>>
          ELSE /\ CE_Fail(p, "Error EndPointCreate: gnmi-cli")
               /\ loc' = [loc EXCEPT ![p] = Ran(@, "gnmi-cli", FALSE)]
               /\ UNCHANGED vifs
    /\ UNCHANGED <<mem, db, dirs, rules, links, req, ghost, ctl>>

\* docker exec ipdk ovs-p4ctl add-entry br0 ingress.ipv4_host dst=<ip>,send(<n>)
CE_P4ctlRollback(p) ==
    /\ pc[p] = "ce_p4ctl"
    /\ \E envOk \in Outcomes :
          IF envOk
          THEN /\ rules' = rules \cup {[dst |-> loc[p].ip, port |-> loc[p].ipdk_intf]}
               /\ loc' = [loc EXCEPT ![p] = Ran(@, "ovs-p4ctl", TRUE)]
               /\ pc' = [pc EXCEPT ![p] = "ce_iplink"]
               /\ UNCHANGED <<mu, resp, vifs>>
          ELSE /\ CE_Fail(p, "Error ovs-p4ctl")
               /\ loc' = [loc EXCEPT ![p] = Ran(@, "ovs-p4ctl", FALSE)]
               /\ vifs' = vifs \ {[name |-> loc[p].ipdk_intf, socket |-> loc[p].ip]}
               /\ UNCHANGED rules
    /\ UNCHANGED <<mem, db, dirs, links, req, ghost, ctl>>
CE_P4ctl(p) ==
    /\ pc[p] = "ce_p4ctl"
    /\ \E envOk \in Outcomes :
          IF envOk
          THEN /\ rules' = rules \cup {[dst |-> loc[p].ip, port |-> loc[p].ipdk_intf]}
               /\ loc' = [loc EXCEPT ![p] = Ran(@, "ovs-p4ctl", TRUE)]
               /\ pc' = [pc EXCEPT ![p] = "ce_iplink"]
               /\ UNCHANGED <<mu, resp>>
          ELSE /\ CE_Fail(p, "Error ovs-p4ctl")
               /\ loc' = [loc EXCEPT ![p] = Ran(@, "ovs-p4ctl", FALSE)]
               /\ UNCHANGED rules
    /\ UNCHANGED <<mem, db, dirs, vifs, links, req, ghost, ctl>>

\* ip link add <vhostPort> type dummy: fails when the interface exists.
CE_IpLinkIgnoreErr(p) ==
    /\ pc[p] = "ce_iplink"
    /\ \E envOk \in Outcomes :
          IF envOk /\ loc[p].vhostPort \notin links
          THEN /\ links' = links \cup {loc[p].vhostPort}
               /\ loc' = [loc EXCEPT ![p] = Ran(@, "ip link add", TRUE)]
          ELSE /\ loc' = [loc EXCEPT ![p] = Ran(@, "ip link add", FALSE)]
               /\ UNCHANGED links
    /\ pc' = [pc EXCEPT ![p] = "ce_store"]
    /\ UNCHANGED <<mem, mu, resp, db, dirs, vifs, rules, req, ghost, ctl>>
CE_IpLink(p) ==
    /\ pc[p] = "ce_iplink"
    /\ \E envOk \in Outcomes :
          IF envOk /\ loc[p].vhostPort \notin links
          THEN /\ links' = links \cup {loc[p].vhostPort}
               /\ loc' = [loc EXCEPT ![p] = Ran(@, "ip link add", TRUE)]
               /\ pc' = [pc EXCEPT ![p] = "ce_store"]
               /\ UNCHANGED <<mu, resp>>
          ELSE /\ CE_Fail(p, "Error EndPointCreate: ip link add")
               /\ loc' = [loc EXCEPT ![p] = Ran(@, "ip link add", FALSE)]
               /\ UNCHANGED links
    /\ UNCHANGED <<mem, db, dirs, vifs, rules, req, ghost, ctl>>

\* The epVal stored for the endpoint.
NewEpVal(p) == [IP |-> req[p].Address,
                vhostuserPort |-> loc[p].vhostPort,
                ipdkInterface |-> Itoa(brMap.intfCount)]

CE_Store(p) ==
    /\ pc[p] = "ce_store"
    /\ LET id == req[p].EndpointID
           v == NewEpVal(p)
       IN /\ epMap' = Put(epMap, id, v)
          /\ \E ok \in Outcomes :
                /\ db' = dbAdd(db, "epMap", id, GobEncode(v), ok)
                /\ durable' = durAdd(durable, "epMap", id, v, ok)
                /\ loc' = [loc EXCEPT ![p] = Logged(@, "epMap", ok)]
                /\ Finish(p, respAfterDb(ok))
    /\ mu' = Deferred(p)
    /\ UNCHANGED <<nwMap, brMap, intfCounter, ext, req, hist, ctl>>

----------------------------------------------------------------------------
\* handlerDeleteEndpoint

ReqDeleteEndpoint(p) ==
    \E e \in EndpointIDs :
        Accept(p, [NoReq EXCEPT !.op = "DeleteEndpoint", !.EndpointID = e], "de_lock_ep")

DE_LockEp(p) == pc[p] = "de_lock_ep" /\ Lock(p, "epMap", "de_lock_nw")
DE_LockNw(p) == pc[p] = "de_lock_nw" /\ Lock(p, "nwMap", "de_delete")

\* m := epMap.m[id]; vhostPort := m.vhostuserPort; delete; dbDelete; Unlocks.
DE_Delete(p) ==
    /\ pc[p] = "de_delete"
    /\ LET id == req[p].EndpointID
       IN IF id \notin DOMAIN epMap
          THEN \* nil pointer dereference: panics holding epMap and nwMap
               /\ mu' = Abandon(p)
               /\ Finish(p, "panic")
               /\ UNCHANGED <<epMap, db, loc, durable>>
          ELSE /\ epMap' = Del(epMap, id)
               /\ \E ok \in Outcomes :
                     /\ db' = dbDelete(db, "epMap", id, ok)
                     /\ durable' = durDelete(durable, "epMap", id, ok)
                     /\ loc' = [loc EXCEPT ![p] =
                                  Logged([@ EXCEPT !.vhostPort = epMap[id].vhostuserPort],
                                         "epMap", ok)]
               /\ mu' = [mu EXCEPT !.nwMap = Free, !.epMap = Free]
               /\ pc' = [pc EXCEPT ![p] = "de_iplink"]
               /\ UNCHANGED resp
    /\ UNCHANGED <<nwMap, brMap, intfCounter, ext, req, hist, ctl>>

\* ip link del <vhostPort>: fails when there is no such interface.
DE_IpLink(p) ==
    /\ pc[p] = "de_iplink"
    /\ \E envOk \in Outcomes :
          IF envOk /\ loc[p].vhostPort \in links
          THEN /\ links' = links \ {loc[p].vhostPort}
               /\ loc' = [loc EXCEPT ![p] = Ran(@, "ip link del", TRUE)]
               /\ pc' = [pc EXCEPT ![p] = "de_rmdir"]
               /\ UNCHANGED resp
          ELSE /\ Finish(p, "Error EndPointCreate: ip link del")
               /\ loc' = [loc EXCEPT ![p] = Ran(@, "ip link del", FALSE)]
               /\ UNCHANGED links
    /\ UNCHANGED <<mem, mu, db, dirs, vifs, rules, req, ghost, ctl>>

\* os.RemoveAll("/tmp/vhostuser_<vhostPort>"): its result is dropped; the err
\* tested afterwards is the nil left by json.Unmarshal.
DE_RemoveAll(p) ==
    /\ pc[p] = "de_rmdir"
    /\ \E envOk \in Outcomes :
          /\ dirs' = IF envOk THEN dirs \ {loc[p].vhostPort} ELSE dirs
          /\ loc' = [loc EXCEPT ![p] = Ran(@, "rm -r", envOk)]
    /\ Finish(p, "ok")
    /\ UNCHANGED <<mem, mu, db, vifs, rules, links, req, ghost, ctl>>

----------------------------------------------------------------------------
\* handlerJoin

ReqJoin(p) ==
    \E n \in NetworkIDs, e \in EndpointIDs :
        Accept(p, [NoReq EXCEPT !.op = "Join", !.NetworkID = n, !.EndpointID = e],
               "j_lock_nw")

J_LockNw(p) == pc[p] = "j_lock_nw" /\ Lock(p, "nwMap", "j_lock_ep")
J_LockEp(p) == pc[p] = "j_lock_ep" /\ Lock(p, "epMap", "j_read")

\* nm, em read under both locks, both unlocked, then the response is built
\* from nm.Gateway.IP and em.vhostuserPort (a nil nm or em panics).
J_Read(p) ==
    /\ pc[p] = "j_read"
    /\ mu' = [mu EXCEPT !.nwMap = Free, !.epMap = Free]
    /\ IF req[p].NetworkID \in DOMAIN nwMap /\ req[p].EndpointID \in DOMAIN epMap
       THEN /\ loc' = [loc EXCEPT ![p].ip = nwMap[req[p].NetworkID].Gateway.IP,
                                  ![p].vhostPort = epMap[req[p].EndpointID].vhostuserPort]
            /\ Finish(p, "ok")
       ELSE /\ Finish(p, "panic")
            /\ UNCHANGED loc
    /\ UNCHANGED <<mem, db, ext, req, ghost, ctl>>

----------------------------------------------------------------------------
\* The worker is done with its request and takes the next one.
Return(p) ==
    /\ pc[p] = "done"
    /\ pc' = [pc EXCEPT ![p] = "idle"]
    /\ req' = [req EXCEPT ![p] = NoReq]
    /\ loc' = [loc EXCEPT ![p] = NoLoc]
    /\ resp' = [resp EXCEPT ![p] = "none"]
    /\ UNCHANGED <<mem, mu, db, ext, ghost, ctl>>

\* initDb: the tables are rebuilt from the buckets.
LoadTable(bucket, fields) == [k \in DOMAIN bucket |-> GobDecode(bucket[k], fields)]
LoadBrTable(bucket) == [k \in DOMAIN bucket |-> GobDecodeInt(bucket[k])]
LoadIntfCounter(d) ==
    LET c == dbGet(d, "global", "counter")
    IN IF c.err THEN DefaultIntfCounter
       ELSE IF c.value # Nil THEN c.value ELSE DefaultIntfCounter  \* c.(int)

\* The process stops (at any point) and starts again: init(), then initDb()
\* on the ledger file; the host's directories, interfaces and the dataplane
\* keep their state.
Restart ==
    /\ restarts < MaxRestarts
    /\ restarts' = restarts + 1
    /\ nwMap' = LoadTable(db.nwMap, nwValFields)
    /\ epMap' = LoadTable(db.epMap, epValFields)
    /\ brMap' = [brCount |-> 1, intfCount |-> 1, m |-> LoadBrTable(db.brMap)]
    /\ intfCounter' = LoadIntfCounter(db)
    /\ mu' = [l \in DOMAIN mu |-> Free]
    /\ pc' = [p \in Procs |-> "idle"]
    /\ req' = [p \in Procs |-> NoReq]
    /\ loc' = [p \in Procs |-> NoLoc]
    /\ resp' = [p \in Procs |-> "none"]
    /\ hist' = [br |-> <<>>, intf |-> <<>>,
                past |-> hist.past \cup {hist.intf[i] : i \in 1..Len(hist.intf)}]
    /\ UNCHANGED <<db, ext, durable, seen, budget, faults>>

Serve ==
    \/ \E p \in Procs : ReqCreateNetwork(p)
    \/ \E p \in Procs : CN_LockNw(p)
    \/ \E p \in Procs : CN_PutNw(p)
    \/ \E p \in Procs : CN_LockBr(p)
    \/ \E p \in Procs : CN_PutBr(p)
    \/ \E p \in Procs : ReqDeleteNetwork(p)
    \/ \E p \in Procs : DN_LockNw(p)
    \/ \E p \in Procs : DN_DelNw(p)
    \/ \E p \in Procs : DN_LockBr(p)
    \/ \E p \in Procs : DN_DelBr(p)
    \/ \E p \in Procs : ReqCreateEndpoint(p)
    \/ \E p \in Procs : CE_Check(p)
    \/ \E p \in Procs : CE_Lock1(p)
    \/ \E p \in Procs : CE_Lookup(p)
    \/ \E p \in Procs : CE_LockNw(p)
    \/ \E p \in Procs : CE_LockEp(p)
    \/ \E p \in Procs : CE_LockBr(p)
    \/ \E p \in Procs : CE_Mkdir(p)
    \/ \E p \in Procs : CE_Alloc(p)
    \/ \E p \in Procs : CE_Gnmi(p)
    \/ \E p \in Procs : CE_P4ctl(p)
    \/ \E p \in Procs : CE_IpLink(p)
    \/ \E p \in Procs : CE_Store(p)
    \/ \E p \in Procs : ReqDeleteEndpoint(p)
    \/ \E p \in Procs : DE_LockEp(p)
    \/ \E p \in Procs : DE_LockNw(p)
    \/ \E p \in Procs : DE_Delete(p)
    \/ \E p \in Procs : DE_IpLink(p)
    \/ \E p \in Procs : DE_RemoveAll(p)
    \/ \E p \in Procs : ReqJoin(p)
    \/ \E p \in Procs : J_LockNw(p)
    \/ \E p \in Procs : J_LockEp(p)
    \/ \E p \in Procs : J_Read(p)
    \/ \E p \in Procs : Return(p)

Next == Serve \/ Restart

Spec == Init /\ [][Next]_vars

\* The same program where every host command and ledger operation succeeds
\* and the process is not restarted.
InitReliable ==
    /\ nwMap = EmptyMap
    /\ epMap = EmptyMap
    /\ brMap = [brCount |-> 1, intfCount |-> 1, m |-> EmptyMap]
    /\ intfCounter = DefaultIntfCounter
    /\ mu = [nwMap |-> Free, epMap |-> Free, brMap |-> Free]
    /\ db = [global |-> EmptyMap, nwMap |-> EmptyMap, epMap |-> EmptyMap, brMap |-> EmptyMap]
    /\ dirs = {} /\ vifs = {} /\ rules = {} /\ links = {}
    /\ pc = [p \in Procs |-> "idle"]
    /\ req = [p \in Procs |-> NoReq]
    /\ loc = [p \in Procs |-> NoLoc]
    /\ resp = [p \in Procs |-> "none"]
    /\ hist = [br |-> <<>>, intf |-> <<>>, past |-> {}]
    /\ durable = [nwMap |-> EmptyMap, epMap |-> EmptyMap, brMap |-> EmptyMap]
    /\ seen = {}
    /\ budget = MaxReqsReliable
    /\ restarts = 0
    /\ faults = FALSE

SpecReliable == InitReliable /\ [][Serve]_vars

----------------------------------------------------------------------------
\* Properties

\* A step taken by worker p while the process keeps running.
StepOf(p) == pc'[p] # pc[p] /\ restarts' = restarts
\* Worker p acquires lock l in this step.
Acquires(p, l) == mu[l] # p /\ mu'[l] = p
\* The documented lock order Network -> Endpoint -> Bridge.
LockRank(l) == CASE l = "nwMap" -> 1 [] l = "epMap" -> 2 [] l = "brMap" -> 3
\* The lock worker p is blocked on or about to take, if any.
WaitsFor(p) ==
    CASE pc[p] \in {"cn_lock_nw", "dn_lock_nw", "ce_lock1", "ce_lock_nw",
                    "de_lock_nw", "j_lock_nw"} -> "nwMap"
      [] pc[p] \in {"ce_lock_ep", "de_lock_ep", "j_lock_ep"} -> "epMap"
      [] pc[p] \in {"cn_lock_br", "dn_lock_br", "ce_lock_br"} -> "brMap"
      [] OTHER -> "none"
\* The request of worker p names only networks and endpoints that exist (a
\* CreateNetwork or CreateEndpoint creates the one it names).
NamesExisting(p) ==
    CASE req[p].op = "DeleteNetwork" -> req[p].NetworkID \in DOMAIN nwMap
      [] req[p].op = "CreateEndpoint" -> req[p].NetworkID \in DOMAIN nwMap
      [] req[p].op = "DeleteEndpoint" -> req[p].EndpointID \in DOMAIN epMap
      [] req[p].op = "Join" -> /\ req[p].NetworkID \in DOMAIN nwMap
                               /\ req[p].EndpointID \in DOMAIN epMap
      [] OTHER -> TRUE
StrictlyIncreasing(q) == \A i, j \in 1..Len(q) : i < j => q[i] < q[j]
NoDuplicates(q) == \A i, j \in 1..Len(q) : i # j => q[i] # q[j]
Provisioned == <<dirs, vifs, rules, links>>

\* C1: every request takes the table locks in the order Network, Endpoint,
\* Bridge: a lock is never acquired by a worker that holds a lock later in
\* that order.
C1_LockOrder ==
    [][\A p \in Procs : \A l \in DOMAIN mu, h \in DOMAIN mu :
          (Acquires(p, l) /\ mu[h] = p) => LockRank(h) < LockRank(l)]_vars

\* C2: among requests that name existing networks and endpoints there is never
\* a set of requests each blocked on a table lock held by another of the set.
C2_NoDeadlock ==
    \A S \in SUBSET Procs :
        (S # {} /\ \A p \in S : NamesExisting(p))
            => ~(\A p \in S : WaitsFor(p) # "none" /\ mu[WaitsFor(p)] \in S)

\* C3: a CreateEndpoint whose network is not in the network table answers
\* with the unknown-network error, and the step that finds the network
\* missing changes no table, counter, ledger entry or provisioned resource.
C3_UnknownNetwork ==
    [][\A p \in Procs :
          (pc[p] = "ce_lookup" /\ StepOf(p) /\ req[p].NetworkID \notin DOMAIN nwMap)
              => /\ pc'[p] = "done"
                 /\ resp'[p] = "Error: incompatible network"
                 /\ UNCHANGED <<nwMap, epMap, brMap, db, Provisioned>>]_vars

\* C4: a CreateEndpoint whose address is empty or has no prefix length ends
\* with an address error and changes no table, counter, ledger entry, socket
\* directory, dataplane interface, forwarding rule or placeholder interface.
C4_AddressError ==
    [][\A p \in Procs :
          (pc[p] = "ce_check" /\ StepOf(p) /\ req[p].Address \in {"", "10.0.0.5"})
              => /\ pc'[p] = "done"
                 /\ resp'[p] \in {"Error: IP Address parameter not provided in docker run",
                                  "Error: Invalid IP Address"}
                 /\ UNCHANGED <<nwMap, epMap, brMap, intfCounter, db, Provisioned>>]_vars
C4_Witness ==
    \E p \in Procs :
        /\ pc[p] = "done" /\ req[p].op = "CreateEndpoint"
        /\ req[p].Address = "10.0.0.5" /\ resp[p] = "Error: Invalid IP Address"
        /\ req[p].NetworkID \in DOMAIN nwMap

\* C5: within a process run no interface index is handed out twice, and two
\* CreateEndpoint requests that both hold an index hold different ones.
C5_UniqueIntf ==
    /\ NoDuplicates(hist.intf)
    /\ \A p, q \in Procs :
          (p # q /\ loc[p].ipdk_intf # 0 /\ loc[q].ipdk_intf # 0)
              => loc[p].ipdk_intf # loc[q].ipdk_intf
C5_Witness ==
    /\ req["w1"].op = "CreateEndpoint" /\ req["w2"].op = "CreateEndpoint"
    /\ req["w1"].NetworkID = req["w2"].NetworkID
    /\ req["w1"].EndpointID # req["w2"].EndpointID
    /\ loc["w1"].ipdk_intf # 0 /\ loc["w2"].ipdk_intf # 0

\* C6: while the process runs neither counter decreases, and the values each
\* counter has handed out form a strictly increasing sequence, whatever
\* creates and deletes are interleaved.
C6_Monotonic ==
    [][restarts' = restarts =>
          /\ brMap'.brCount >= brMap.brCount
          /\ brMap'.intfCount >= brMap.intfCount
          /\ StrictlyIncreasing(hist'.br)
          /\ StrictlyIncreasing(hist'.intf)]_vars
C6_Witness ==
    \E p \in Procs :
        /\ req[p].op = "DeleteNetwork" /\ pc[p] = "done" /\ resp[p] = "ok"
        /\ Len(hist.br) >= 1
        /\ brMap.brCount = hist.br[Len(hist.br)] + 1

\* C7: in a run on a ledger without a stored counter the first bridge number
\* handed out is 1 and the first interface index handed out is 100.
C7_FirstValues ==
    "counter" \notin DOMAIN db.global =>
        /\ hist.br # <<>> => hist.br[1] = 1
        /\ hist.intf # <<>> => hist.intf[1] = 100

\* C8: a restart rebuilds the network table with exactly the keys of the
\* ledger's network table, and every network record whose ledger write
\* succeeded comes back with the bridge and gateway it was written with.
C8_RestartNetworks ==
    [][restarts' # restarts =>
          /\ DOMAIN nwMap' = DOMAIN db.nwMap
          /\ \A n \in DOMAIN durable.nwMap :
                /\ n \in DOMAIN nwMap'
                /\ nwMap'[n].Bridge = durable.nwMap[n].Bridge
                /\ nwMap'[n].Gateway = durable.nwMap[n].Gateway]_vars
C8_Witness ==
    /\ restarts = 1 /\ hist.br = <<>>
    /\ \A p \in Procs : pc[p] = "idle"
    /\ "net1" \in DOMAIN nwMap
    /\ nwMap["net1"].Gateway = [IP |-> "10.1.0.1", Mask |-> 16]

\* C9: a failed ledger operation does not fail its request and the change it
\* was to persist is made in memory all the same; a restart rebuilds the
\* tables from the ledger alone, so they hold what the successful ledger
\* operations left and nothing of the failed ones.
C9_LedgerFailure ==
    [][/\ \A p \in Procs :
             (StepOf(p) /\ loc'[p].dbErr # loc[p].dbErr) =>
                 /\ pc[p] = "cn_put_nw" => req[p].NetworkID \in DOMAIN nwMap'
                 /\ pc[p] = "cn_put_br" => req[p].NetworkID \in DOMAIN brMap'.m
                 /\ pc[p] = "dn_del_nw" => req[p].NetworkID \notin DOMAIN nwMap'
                 /\ pc[p] = "dn_del_br" => req[p].NetworkID \notin DOMAIN brMap'.m
                 /\ pc[p] = "ce_store" => req[p].EndpointID \in DOMAIN epMap'
                 /\ pc[p] = "de_delete" => /\ req[p].EndpointID \notin DOMAIN epMap'
                                            /\ pc'[p] = "de_iplink"
       /\ \A p \in Procs :
             (StepOf(p) /\ pc'[p] = "done" /\ loc'[p].dbErr # {}
                        /\ req[p].op # "DeleteEndpoint") => resp'[p] = "ok"
       /\ restarts' # restarts =>
             /\ nwMap' = durable.nwMap
             /\ brMap'.m = durable.brMap
             /\ DOMAIN epMap' = DOMAIN durable.epMap]_vars
C9_Witness ==
    /\ restarts = 1 /\ hist.br = <<>>
    /\ \A p \in Procs : pc[p] = "idle"
    /\ "net1" \notin DOMAIN nwMap
    /\ "net1" \in DOMAIN brMap.m

\* C10: the endpoint record is removed only after deprovisioning: it is still
\* in the endpoint table while the placeholder interface is yet to be removed,
\* and also when removing the placeholder interface has failed.
C10_DeleteAfterDeprovision ==
    \A p \in Procs :
        (/\ req[p].op = "DeleteEndpoint"
         /\ \/ pc[p] = "de_iplink"
            \/ pc[p] = "done" /\ resp[p] = "Error EndPointCreate: ip link del")
            => req[p].EndpointID \in DOMAIN epMap

\* The provisioning commands of CreateEndpoint in their order, the error each
\* one answers with when it fails, and what each one leaves behind.
ProvisionSteps == <<"mkdir", "gnmi-cli", "ovs-p4ctl", "ip link add">>
ProvisionError(cmd) ==
    CASE cmd = "mkdir" -> "Error making socket path"
      [] cmd = "gnmi-cli" -> "Error EndPointCreate: gnmi-cli"
      [] cmd = "ovs-p4ctl" -> "Error ovs-p4ctl"
      [] cmd = "ip link add" -> "Error EndPointCreate: ip link add"
InPlace(l, cmd) ==
    CASE cmd = "mkdir" -> l.ip \in dirs'
      [] cmd = "gnmi-cli" -> [name |-> l.ipdk_intf, socket |-> l.ip] \in vifs'
      [] cmd = "ovs-p4ctl" -> [dst |-> l.ip, port |-> l.ipdk_intf] \in rules'
      [] cmd = "ip link add" -> l.vhostPort \in links'
AllSucceeded(c) == Len(c) = Len(ProvisionSteps) /\ \A i \in 1..Len(c) : c[i].ok
SomeFailed(c) == \E i \in 1..Len(c) : ~c[i].ok

\* C11: a CreateEndpoint changes the endpoint table and the ledger's endpoint
\* table only once all four provisioning commands have succeeded; a request in
\* which a command failed answers with that command's error and none of its
\* steps changes either table, so no record appears for its EndpointID.
C11_RecordAfterProvisioning ==
    [][\A p \in Procs :
          (StepOf(p) /\ req[p].op = "CreateEndpoint") =>
              /\ (epMap' # epMap \/ db'.epMap # db.epMap) => AllSucceeded(loc[p].cmds)
              /\ SomeFailed(loc'[p].cmds) =>
                    /\ pc'[p] = "done"
                    /\ resp'[p] \in {ProvisionError(ProvisionSteps[i]) : i \in 1..4}
                    /\ epMap' = epMap /\ db'.epMap = db.epMap]_vars
C11_Witness ==
    \E p \in Procs :
        /\ req[p].op = "CreateEndpoint" /\ pc[p] = "done"
        /\ resp[p] = "Error EndPointCreate: ip link add"
        /\ Len(loc[p].cmds) = 4
        /\ req[p].EndpointID \notin DOMAIN epMap
        /\ req[p].EndpointID \notin DOMAIN db.epMap

\* C12: CreateEndpoint runs mkdir, gnmi-cli, ovs-p4ctl, ip link add in this
\* order; a failed command is the last one the request runs, the request ends
\* with that command's error, the failing step changes no provisioned
\* resource and what the commands before it created is still there.
C12_StepOrderNoRollback ==
    [][\A p \in Procs :
          (StepOf(p) /\ req[p].op = "CreateEndpoint") =>
              LET c == loc'[p].cmds
              IN /\ Len(c) <= Len(ProvisionSteps)
                 /\ \A i \in 1..Len(c) : c[i].cmd = ProvisionSteps[i]
                 /\ \A i \in 1..Len(c) : ~c[i].ok =>
                       /\ i = Len(c)
                       /\ pc'[p] = "done"
                       /\ resp'[p] = ProvisionError(c[i].cmd)
                       /\ Provisioned' = Provisioned
                       /\ \A j \in 1..(i - 1) : InPlace(loc'[p], c[j].cmd)
                 /\ dirs \subseteq dirs' /\ vifs \subseteq vifs'
                 /\ rules \subseteq rules' /\ links \subseteq links']_vars
C12_Witness ==
    \E p \in Procs :
        /\ req[p].op = "CreateEndpoint" /\ pc[p] = "done"
        /\ resp[p] = "Error ovs-p4ctl"
        /\ Len(loc[p].cmds) = 3
        /\ loc[p].ip \in dirs
        /\ [name |-> loc[p].ipdk_intf, socket |-> loc[p].ip] \in vifs
        /\ loc[p].vhostPort \notin links

\* C13: a DeleteEndpoint that answers without error has removed the record it
\* looked up from the endpoint table and (when the ledger delete succeeded)
\* from the ledger, the placeholder interface and the socket directory, and
\* has changed no dataplane interface or forwarding rule; no step of any
\* request ever removes a dataplane interface or a forwarding rule.
C13_DeleteEndpointEffect ==
    [][/\ \A p \in Procs :
             (StepOf(p) /\ req[p].op = "DeleteEndpoint") =>
                 /\ vifs' = vifs /\ rules' = rules
                 /\ pc'[p] = "de_iplink" =>
                       /\ req[p].EndpointID \notin DOMAIN epMap'
                       /\ loc'[p].dbErr = {} => req[p].EndpointID \notin DOMAIN db'.epMap
                 /\ pc'[p] = "de_rmdir" => loc[p].vhostPort \notin links'
                 /\ (pc'[p] = "done" /\ resp'[p] = "ok") => loc[p].vhostPort \notin dirs'
       /\ vifs \subseteq vifs'
       /\ rules \subseteq rules']_vars

\* A step of a request of one of the kinds ops that names network n.
StepOn(n, ops) == \E p \in Procs : StepOf(p) /\ req[p].NetworkID = n /\ req[p].op \in ops
\* What the lookups of CreateEndpoint and Join return is what the network
\* table holds, and CreateNetwork stores the bridge "br" and the gateway of
\* its request.
LookupsFaithful ==
    \A p \in Procs :
        StepOf(p) =>
            /\ pc[p] = "cn_put_nw" =>
                  nwMap'[req[p].NetworkID] = [Bridge |-> "br", Gateway |-> req[p].Gateway]
            /\ (pc[p] = "ce_lookup" /\ req[p].NetworkID \in DOMAIN nwMap) =>
                  loc'[p].bridge = nwMap[req[p].NetworkID].Bridge
            /\ (pc[p] = "j_read" /\ resp'[p] = "ok") =>
                  loc'[p].ip = nwMap[req[p].NetworkID].Gateway.IP

\* C14 (as stated): while the process runs, a network record stays in the
\* network table with the bridge and gateway it was created with, and every
\* lookup returns them, until a DeleteNetwork for its id: no step of any other
\* request changes or removes it.
C14_NetworkRecordImmutable ==
    [][restarts' = restarts =>
          /\ LookupsFaithful
          /\ \A n \in DOMAIN nwMap :
                ~StepOn(n, {"DeleteNetwork"}) => (n \in DOMAIN nwMap' /\ nwMap'[n] = nwMap[n])]_vars

\* C14 (amended): while the process runs, a network record stays in the
\* network table with the bridge and gateway it was created with, and every
\* lookup returns them, until a DeleteNetwork or another CreateNetwork for
\* its id: no step of any other request changes or removes it.
C14_NetworkRecordStable ==
    [][restarts' = restarts =>
          /\ LookupsFaithful
          /\ \A n \in DOMAIN nwMap :
                ~StepOn(n, {"DeleteNetwork", "CreateNetwork"})
                    => (n \in DOMAIN nwMap' /\ nwMap'[n] = nwMap[n])]_vars
C14_Witness ==
    \E p \in Procs :
        /\ req[p].op = "Join" /\ pc[p] = "done" /\ resp[p] = "ok"
        /\ req[p].NetworkID \in DOMAIN nwMap
        /\ nwMap[req[p].NetworkID].Gateway.IP = "10.1.0.1"
        /\ loc[p].ip = "10.1.0.1"

Values(q) == {q[i] : i \in 1..Len(q)}

\* C15: a CreateNetwork for an id that is already in the tables answers
\* without error and adds no second entry: the network table then holds the
\* id with the request's gateway, the bridge table holds it with a number
\* freshly taken from the bridge counter (one not handed out before in this
\* run), and the ledger entries whose writes succeeded hold the new values.
C15_CreateNetworkOverwrite ==
    [][\A p \in Procs :
          LET id == req[p].NetworkID
              new == [Bridge |-> "br", Gateway |-> req[p].Gateway]
          IN /\ (StepOf(p) /\ pc[p] = "cn_put_nw" /\ id \in DOMAIN nwMap) =>
                   /\ DOMAIN nwMap' = DOMAIN nwMap
                   /\ nwMap'[id] = new
                   /\ "nwMap" \notin loc'[p].dbErr => db'.nwMap[id] = GobEncode(new)
             /\ (StepOf(p) /\ pc[p] = "cn_put_br" /\ id \in DOMAIN brMap.m) =>
                   /\ pc'[p] = "done" /\ resp'[p] = "ok"
                   /\ nwMap'[id] = new
                   /\ DOMAIN brMap'.m = DOMAIN brMap.m
                   /\ brMap'.m[id] = brMap.brCount
                   /\ brMap'.brCount = brMap.brCount + 1
                   /\ brMap'.m[id] \notin Values(hist.br)
                   /\ "brMap" \notin loc'[p].dbErr =>
                         db'.brMap[id] = GobEncodeInt(brMap'.m[id])]_vars
C15_Witness ==
    \E p \in Procs :
        /\ req[p].op = "CreateNetwork" /\ pc[p] = "done" /\ resp[p] = "ok"
        /\ hist.br = <<1, 2>>
        /\ DOMAIN nwMap = {req[p].NetworkID}
        /\ DOMAIN brMap.m = {req[p].NetworkID}
        /\ brMap.m[req[p].NetworkID] = 2
        /\ DOMAIN db.nwMap = {req[p].NetworkID}
        /\ DOMAIN db.brMap = {req[p].NetworkID}
        /\ db.brMap[req[p].NetworkID] = GobEncodeInt(2)

\* C16: a DeleteNetwork of a network that is in the network table removes the
\* network record and the bridge record from memory and (when the ledger
\* deletes succeed) from the ledger, and answers without error whether or not
\* endpoints exist; none of its steps changes the endpoint table, the
\* ledger's endpoint entries, a counter or a provisioned resource.
C16_DeleteNetworkEffect ==
    [][\A p \in Procs :
          (StepOf(p) /\ req[p].op = "DeleteNetwork") =>
              LET id == req[p].NetworkID
              IN /\ epMap' = epMap /\ db'.epMap = db.epMap
                 /\ brMap'.brCount = brMap.brCount
                 /\ brMap'.intfCount = brMap.intfCount
                 /\ intfCounter' = intfCounter
                 /\ Provisioned' = Provisioned
                 /\ (pc[p] = "dn_del_nw" /\ id \in DOMAIN nwMap) =>
                       /\ DOMAIN nwMap' = DOMAIN nwMap \ {id}
                       /\ \A n \in DOMAIN nwMap' : nwMap'[n] = nwMap[n]
                       /\ "nwMap" \notin loc'[p].dbErr => id \notin DOMAIN db'.nwMap
                       /\ pc'[p] = "dn_lock_br"
                 /\ pc[p] = "dn_del_br" =>
                       /\ id \notin DOMAIN nwMap'
                       /\ DOMAIN brMap'.m = DOMAIN brMap.m \ {id}
                       /\ \A n \in DOMAIN brMap'.m : brMap'.m[n] = brMap.m[n]
                       /\ "brMap" \notin loc'[p].dbErr => id \notin DOMAIN db'.brMap
                       /\ pc'[p] = "done" /\ resp'[p] = "ok"]_vars
C16_Witness ==
    \E p \in Procs :
        /\ req[p].op = "DeleteNetwork" /\ pc[p] = "done" /\ resp[p] = "ok"
        /\ req[p].NetworkID = "net1" /\ "net2" \notin seen
        /\ loc[p].bridge = "br" /\ loc[p].dbErr = {}
        /\ DOMAIN epMap # {} /\ DOMAIN db.epMap # {}
        /\ nwMap = EmptyMap /\ brMap.m = EmptyMap
        /\ db.nwMap = EmptyMap /\ db.brMap = EmptyMap

\* A CreateNetwork or DeleteNetwork that holds the Network lock and has
\* updated the network table but not yet the bridge table.
MidNetworkUpdate(p) ==
    /\ mu.nwMap = p
    /\ pc[p] \in {"cn_lock_br", "cn_put_br", "dn_lock_br", "dn_del_br"}

\* C17: the bridge table and the network table have the same keys in every
\* state, except while a CreateNetwork or DeleteNetwork holding the Network
\* lock is between its two updates: so they agree whenever no such request
\* is in flight and whenever any other request holds the Network lock.
C17_BridgePaired ==
    (DOMAIN brMap.m = DOMAIN nwMap) \/ (\E p \in Procs : MidNetworkUpdate(p))

\* Worker p is past network resolution in CreateEndpoint and about to run one
\* of the out-of-process provisioning commands.
Provisioning(p) == pc[p] \in {"ce_mkdir", "ce_gnmi", "ce_p4ctl", "ce_iplink"}

\* C18: CreateEndpoint holds no table lock while it runs its provisioning
\* commands (the Bridge lock serializes the counter allocation only), so that
\* two CreateEndpoint requests can be executing provisioning steps at once.
C18_ProvisioningUnlocked ==
    \A p \in Procs : Provisioning(p) => \A l \in DOMAIN mu : mu[l] # p

\* Each in-memory table has the keys of its ledger table.
KeysAgree ==
    /\ DOMAIN nwMap = DOMAIN db.nwMap
    /\ DOMAIN epMap = DOMAIN db.epMap
    /\ DOMAIN brMap.m = DOMAIN db.brMap
\* A ledger operation fails in this step.
LedgerFailure == \E p \in Procs : loc'[p].dbErr # loc[p].dbErr /\ loc'[p].dbErr # {}
Quiescent == \A p \in Procs : pc[p] \in {"idle", "done"}

\* C19: as long as no ledger operation fails, every in-memory table has the
\* same keys as its ledger table: the tables agree at the start, and every
\* step of a request (successful, failing or panicking) and every restart in
\* which no ledger operation fails keeps them in agreement, in particular in
\* every state in which no request is in flight.
C19_MemoryLedgerKeys ==
    [][(KeysAgree /\ ~LedgerFailure) => KeysAgree']_vars
C19_Witness ==
    /\ Quiescent /\ KeysAgree
    /\ DOMAIN nwMap = {"net1"} /\ DOMAIN brMap.m = {"net1"} /\ DOMAIN epMap = {}
    /\ \E p \in Procs :
          /\ req[p].op = "CreateEndpoint" /\ pc[p] = "done"
          /\ resp[p] = "Error EndPointCreate: gnmi-cli"

\* C20: a request that has ended holds no table lock and has left none
\* locked behind it, whichever way it ended: every lock is free or held by a
\* request still in its handler.
C20_LocksReleased ==
    \A l \in DOMAIN mu :
        /\ mu[l] # Leaked
        /\ \A p \in Procs : pc[p] \in {"idle", "done"} => mu[l] # p

\* C21: the record a successful CreateEndpoint stores carries the interface
\* index the request allocated, the one its dataplane interface is named
\* with and its forwarding rule sends to.
C21_StoredIndexAllocated ==
    [][\A p \in Procs :
          (StepOf(p) /\ pc[p] = "ce_store") =>
              /\ [name |-> loc[p].ipdk_intf, socket |-> loc[p].ip] \in vifs
              /\ [dst |-> loc[p].ip, port |-> loc[p].ipdk_intf] \in rules
              /\ req[p].EndpointID \in DOMAIN epMap'
              /\ epMap'[req[p].EndpointID].ipdkInterface = Itoa(loc[p].ipdk_intf)]_vars

\* C22: a restart brings back every endpoint record whose ledger write
\* succeeded with the address, the port name and the interface index it was
\* written with.
C22_RestartEndpoints ==
    [][restarts' # restarts =>
          \A e \in DOMAIN durable.epMap :
              /\ e \in DOMAIN epMap'
              /\ epMap'[e].IP = durable.epMap[e].IP
              /\ epMap'[e].vhostuserPort = durable.epMap[e].vhostuserPort
              /\ epMap'[e].ipdkInterface = durable.epMap[e].ipdkInterface]_vars

\* C23: in every state, also after restarts, no two networks of the bridge
\* table carry the same bridge sequence number, and no interface index
\* handed out in this run was handed out in an earlier run.
C23_UniqueAcrossRestarts ==
    /\ \A m, n \in DOMAIN brMap.m : m # n => brMap.m[m] # brMap.m[n]
    /\ Values(hist.intf) \cap hist.past = {}

====
